---- MODULE Spec2Model ----
(***************************************************************************)
(* Spriggan (src/src/spriggan.js): the runtime returned by                 *)
(* createSpriggan(), its app()/dispatch()/render()/destroy() operations,   *)
(* the effect runner with the built-in effect handlers, the debug          *)
(* recorder and the delegated DOM listeners.                               *)
(*                                                                         *)
(* One action of the model is one call into the runtime from outside: a    *)
(* call on a handle, a timer or a fetch completion, a DOM event.  The      *)
(* call runs to completion (JavaScript is single threaded), re-entrant     *)
(* dispatches of synchronous effect handlers included.  What the call did  *)
(* is recorded, in order, in `trace`.                                      *)
(***************************************************************************)
EXTENDS Integers, Sequences, FiniteSets, Bags, TLC

\* ------------------------------------------------------------------ bounds
\* The calls into the runtimes (app, dispatch, destroy, the debug calls, a
\* timer, a response, a click) made in one behaviour.  It bounds the counts,
\* the histories, the handles and the timers in flight as well.
MaxCalls == 4
\* The same on a page with two runtimes.
MaxCallsTwo == 3
\* The calls made on the page whose timers and requests all run to their
\* end.
MaxCallsLive == 4
\* The calls made on the page whose elements receive events.
MaxCallsEvents == 3
\* The elements of an interpolated array, and the interpolations of a
\* template.
MaxElems == 2
MaxValues == 2

\* ------------------------------------------------------------- JS values
\* A State: null, undefined or the object {count: n}.
St(n) == [tag |-> "object", count |-> n]
JsNull == [tag |-> "null", count |-> 0]
JsUndefined == [tag |-> "undefined", count |-> 0]
\* The number 0 as a State.
JsZero == [tag |-> "number", count |-> 0]
\* ToBoolean of such a value.
StateTruthy(s) == s.tag = "object"

\* The value of a `type` field: absent, a string, a number or an object.
TAbsent == [t |-> "undefined", s |-> "", n |-> 0]
TStr(str) == [t |-> "string", s |-> str, n |-> 0]
TNum(num) == [t |-> "number", s |-> "", n |-> num]
TObj == [t |-> "object", s |-> "", n |-> 0]
TSym == [t |-> "symbol", s |-> "", n |-> 0]

\* JavaScript's ToBoolean on such a value (the `!x` tests of the source).
Truthy(v) ==
  CASE v.t = "undefined" -> FALSE
    [] v.t = "string" -> v.s # ""
    [] v.t = "number" -> v.n # 0
    [] OTHER -> TRUE

\* A message: null, undefined, or an object with (or without) a type field.
Msg(ty) == [tag |-> "object", type |-> ty]
M(str) == Msg(TStr(str))
NullMsg == [tag |-> "null", type |-> TAbsent]
UndefinedMsg == [tag |-> "undefined", type |-> TAbsent]
MsgTruthy(m) == m.tag = "object"

\* An effect description: a null or undefined array element, or an object
\* {type, msg | onSuccess | onComplete, onError}.  `msg` is the follow-up
\* message the handler dispatches (tag "undefined" when the field is absent).
Eff(ty, m, e) == [tag |-> "object", type |-> ty, msg |-> m, onError |-> e]
NullEff == [tag |-> "null", type |-> "", msg |-> UndefinedMsg, onError |-> UndefinedMsg]
UndefinedEff == [tag |-> "undefined", type |-> "", msg |-> UndefinedMsg, onError |-> UndefinedMsg]
\* A dom effect {type: "dom", action, selector, delay}; with the action
\* "setProperty" it carries name: "innerHTML" and value: "".
DomEff(action, selector, delay) ==
  [tag |-> "object", type |-> "dom", msg |-> UndefinedMsg,
   onError |-> UndefinedMsg, action |-> action, selector |-> selector,
   delay |-> delay]

\* What a reducer call produces: a plain value, an array [state, ...effects],
\* or an exception.
Plain(s) == [kind |-> "plain", state |-> s, effects |-> <<>>]
Arr(s, effs) == [kind |-> "array", state |-> s, effects |-> effs]
Throws == [kind |-> "throw", state |-> JsUndefined, effects |-> <<>>]

\* One entry of `trace`: what happened (kind), in which runtime, the position
\* d in the trace of the reducer call it belongs to (0: none), and the State,
\* message or name it is about.
Ev(k, r, d, s, m, ty) ==
  [kind |-> k, rt |-> r, d |-> d, state |-> s, msg |-> m, type |-> ty]

\* ------------------------------------------------- the applications mounted
\* The reducers, views, effect handlers and subscriptions passed to app() are
\* inputs.  `update` is one reducer in the style of the test suite's: it
\* branches on msg.type and returns a plain State, an array, or throws.
Count(s) == IF s.tag = "object" THEN s.count ELSE 0
Bump(s) == St(Count(s) + 1)

NoMsg == UndefinedMsg

update(s, msg) ==
  LET ty == IF msg.type.t = "string" THEN msg.type.s ELSE ""
  IN CASE ty = "Increment" -> Plain(Bump(s))
       [] ty = "LoadData" ->
            Arr(Bump(s), <<Eff("delay", M("Increment"), NoMsg)>>)
       [] ty = "Fetch" ->
            Arr(s, <<Eff("http", M("Increment"), M("Failed"))>>)
       [] ty = "FetchBoom" ->
            Arr(s, <<Eff("http", M("Boom"), M("Failed"))>>)
       [] ty = "SaveData" ->
            Arr(Bump(s), <<Eff("storage", M("Increment"), NoMsg)>>)
       [] ty = "RunFn" ->
            Arr(s, <<Eff("fn", M("Increment"), NoMsg),
                     Eff("delay", M("Increment"), NoMsg)>>)
       [] ty = "Trigger" ->
            Arr(Bump(s), <<Eff("crashy", NoMsg, NoMsg),
                           Eff("delay", M("Increment"), NoMsg)>>)
       [] ty = "Multi" ->
            Arr(s, <<NullEff, Eff("delay", NoMsg, NoMsg),
                     Eff("doesNotExist", NoMsg, NoMsg), UndefinedEff,
                     Eff("custom", NoMsg, NoMsg),
                     Eff("constructor", NoMsg, NoMsg),
                     [tag |-> "object", type |-> "", msg |-> UndefinedMsg,
                      onError |-> UndefinedMsg]>>)
       [] ty = "Clear" ->
            Arr(Bump(s), <<DomEff("setProperty", "#app", 0)>>)
       [] ty = "ClearLater" ->
            Arr(Bump(s), <<DomEff("setProperty", "#app", 50)>>)
       [] ty = "ClearMissing" ->
            Arr(Bump(s), <<DomEff("setProperty", "#missing", 0)>>)
       [] ty = "Bogus" ->
            Arr(Bump(s), <<DomEff("bogus", "#app", 0)>>)
       [] ty = "Boom" -> Throws
       [] ty = "Undef" -> Plain(JsUndefined)
       [] OTHER -> Plain(s)

\* The names an effect of these applications can carry.
BuiltinNames == {"http", "delay", "storage", "fn", "dom"}
\* A property every object literal inherits from Object.prototype.
ObjectPrototypeNames == {"constructor"}
EffectNames ==
  BuiltinNames \cup ObjectPrototypeNames \cup {"crashy", "custom", "doesNotExist"}
\* What obj[n] is for an object literal obj without an own property n.
Inherited(n) == IF n \in ObjectPrototypeNames THEN "inherited" ELSE "none"

\* config.init: a function returning s, the literal s, or no init field.
InitFn(s) == [kind |-> "function", value |-> s]
InitLit(s) == [kind |-> "literal", value |-> s]
InitMissing == [kind |-> "missing", value |-> JsUndefined]

\* The configurations passed to app().  update and view: the function, or
\* "missing".  effects: the names the user registers a handler under
\* ("crashy" throws, any other records the call).  subscriptions: how many
\* cleanup callbacks the subscriptions function returns (0: none is given).
\* throwing: which of them throws when called (0: none does).
Config(i, u, v, e, er, sub, dbg) ==
  [init |-> i, update |-> u, view |-> v, effects |-> e, effectRunner |-> er,
   subscriptions |-> sub, debug |-> dbg, throwing |-> 0]

Plain1 == Config(InitFn(St(0)), "update", "text", {"crashy", "custom"}, "default", 1, FALSE)
Debug2 == Config(InitLit(St(0)), "update", "text", {"fn"}, "default", 2, TRUE)
Runner0 == Config(InitFn(St(0)), "update", "empty", {}, "throwing", 0, FALSE)
NoInit == Config(InitMissing, "update", "text", {}, "default", 0, FALSE)
NoUpdate == Config(InitFn(St(0)), "missing", "text", {}, "default", 0, FALSE)
NoView == Config(InitFn(St(0)), "update", "missing", {}, "default", 0, FALSE)
Falsy0 == Config(InitLit(JsZero), "update", "text", {}, "default", 0, FALSE)
Crash2 == [Config(InitFn(St(0)), "update", "text", {}, "default", 2, FALSE)
             EXCEPT !.throwing = 1]

\* The elements of the document a selector can name.
Elements == {"#app", "#other"}

\* The app(selector, config) calls made.
AppCalls ==
  { <<"#app", Plain1>>, <<"#other", Plain1>>, <<"#app", Debug2>>,
    <<"#app", Runner0>>, <<"#app", NoInit>>, <<"#app", NoUpdate>>,
    <<"#app", NoView>>, <<"#app", Falsy0>>, <<"#nonexistent", Plain1>> }

\* ------------------------------------------------------ one runtime's state
\* The variables closed over by createSpriggan().  updateFn and runEffectFn
\* hold the user's function and whether the debug wrapper is around it;
\* boundEventHandlers holds the element the handler set was added to;
\* effectHandlers maps a name to what effectHandlers[name] is: "builtin",
\* "user", "inherited" (a function of Object.prototype) or "none".
\* (_currentView is written by render and never read.)
\* debugHistory is a reference to an array: its position in the world's
\* arrays.
NoFn == [fn |-> "null", debug |-> FALSE]
NewRuntime(history) ==
  [currentState |-> JsNull, rootElement |-> "null", updateFn |-> NoFn,
   viewFn |-> "null", effectHandlers |-> [n \in EffectNames |-> Inherited(n)],
   runEffectFn |-> NoFn, isDebugMode |-> FALSE,
   eventListenersAttached |-> FALSE, boundEventHandlers |-> "null",
   debugHistory |-> history]

\* What an element shows: nothing, or the markup a view produced for a State.
Empty == [html |-> "", state |-> JsNull]
Rendered(s) == [html |-> "button", state |-> s]

\* A timer or request in flight: whose dispatch it will call, and with what.
Pending(k, r, m, e) == [kind |-> k, rt |-> r, msg |-> m, onError |-> e]

\* The world a call runs in: the runtimes, the document (per element its
\* content and the runtimes whose handler sets listen on it, in the order
\* they were added), the timers and requests in flight, the trace of the
\* call, whether an exception is propagating (exc), the value the reducer
\* last returned (ret) and the history arrays.
Log(w, r, k, d, s, m, ty) ==
  [w EXCEPT !.trace = Append(@, Ev(k, r, d, s, m, ty))]
Throw(w) == [w EXCEPT !.exc = TRUE]
Caught(w) == [w EXCEPT !.exc = FALSE]

\* ------------------------------------------------------------ the renderer
attachEventListeners(w, r, root) ==
  IF w.rts[r].eventListenersAttached THEN w
  ELSE [w EXCEPT !.rts[r].boundEventHandlers = root,
                 !.dom[root].listeners = Append(@, r),
                 !.rts[r].eventListenersAttached = TRUE]

\* listeners without the handler set runtime r added last.
RECURSIVE RemoveLast(_, _)
RemoveLast(listeners, r) ==
  IF listeners = <<>> THEN <<>>
  ELSE IF listeners[Len(listeners)] = r
  THEN SubSeq(listeners, 1, Len(listeners) - 1)
  ELSE Append(RemoveLast(SubSeq(listeners, 1, Len(listeners) - 1), r),
              listeners[Len(listeners)])

\* removeEventListener takes the bound handlers off root if they are on it.
detachEventListeners(w, r, root) ==
  IF w.rts[r].boundEventHandlers = "null" THEN w
  ELSE [w EXCEPT !.dom[root].listeners =
                     IF w.rts[r].boundEventHandlers = root
                     THEN RemoveLast(@, r) ELSE @,
                 !.rts[r].boundEventHandlers = "null",
                 !.rts[r].eventListenersAttached = FALSE]

\* The user's view: "text" returns markup with a data-msg button, "empty"
\* returns the empty string.
view(v, s) == IF v = "text" THEN Rendered(s) ELSE Empty

render(w, r) ==
  LET rt == w.rts[r]
      root == rt.rootElement
  IN IF root = "null" \/ rt.viewFn = "null" THEN w
     ELSE LET newContent == view(rt.viewFn, rt.currentState)
              w1 == Log(w, r, "view", 0, rt.currentState, NoMsg, rt.viewFn)
          IN IF newContent = Empty
             THEN [w1 EXCEPT !.dom[root].content = Empty]
             ELSE attachEventListeners(
                    [w1 EXCEPT !.dom[root].content = newContent], r, root)

\* --------------------------------------------------------- debug recorder
\* The template literal `${v}` throws a TypeError for a Symbol.
TemplateThrows(v) == v.t = "symbol"

\* debugUpdate(update): the wrapped reducer.  The console.group line
\* converts msg.type to a string before the reducer is called.  An
\* exception of the reducer leaves before the history entry is pushed.
debugUpdate(w0, r, d, s, msg) ==
  LET result == update(s, msg)
      newState == result.state
      w == Log(w0, r, "update", d, s, msg, "")
      w1 == IF result = Plain(JsUndefined)
            THEN Log(w, r, "warn:update-undefined", d, s, msg, "")
            ELSE w
  IN IF TemplateThrows(msg.type) THEN Throw(w0)
     ELSE IF result.kind = "throw" THEN Throw(w)
     ELSE [w1 EXCEPT !.arrays[w.rts[r].debugHistory] =
                          Append(@, [msg |-> msg, state |-> newState]),
                     !.ret = result]

\* The call updateFn(currentState, msg) of dispatch.
callUpdateFn(w, r, d, msg) ==
  LET s == w.rts[r].currentState
      w1 == Log(w, r, "update", d, s, msg, "")
  IN IF w.rts[r].updateFn.debug THEN debugUpdate(w, r, d, s, msg)
     ELSE IF update(s, msg).kind = "throw" THEN Throw(w1)
     ELSE [w1 EXCEPT !.ret = update(s, msg)]

\* ------------------------------------------------------ effect interpreter
RECURSIVE dispatch(_, _, _)

\* defaultEffects.http: fetch() starts the request; its callbacks run later.
httpEffect(w, r, eff) ==
  [w EXCEPT !.pending = @ (+) SetToBag({Pending("http", r, eff.msg, eff.onError)})]

\* A delay that dispatches at once instead of setting a timer.
delayEffectNow(w, r, d, eff) ==
  IF ~MsgTruthy(eff.msg)
  THEN Log(w, r, "warn:delay-no-msg", d, JsNull, NoMsg, eff.type)
  ELSE dispatch(w, r, eff.msg)

\* defaultEffects.delay
delayEffect(w, r, d, eff) ==
  IF ~MsgTruthy(eff.msg)
  THEN Log(w, r, "warn:delay-no-msg", d, JsNull, NoMsg, eff.type)
  ELSE [w EXCEPT !.pending = @ (+) SetToBag({Pending("delay", r, eff.msg, NoMsg)})]

\* try { ... } catch (err) { console.error(...) } around what led to w.
catchAndLog(w, r, k, d, ty) ==
  IF w.exc THEN Log(Caught(w), r, k, d, JsNull, NoMsg, ty) ELSE w

\* A storage effect that dispatches onSuccess from a timer.
storageEffectLater(w, r, d, eff) ==
  IF MsgTruthy(eff.msg)
  THEN [w EXCEPT !.pending = @ (+) SetToBag({Pending("delay", r, eff.msg, NoMsg)})]
  ELSE w

\* defaultEffects.storage (action "set"): the write, then the dispatch of
\* onSuccess, both inside the handler's own try.
storageEffect(w, r, d, eff) ==
  catchAndLog(IF MsgTruthy(eff.msg) THEN dispatch(w, r, eff.msg) ELSE w,
              r, "error:storage", d, eff.type)

\* defaultEffects.fn: run(), then the dispatch of onComplete, inside a try.
fnEffect(w, r, d, eff) ==
  catchAndLog(IF MsgTruthy(eff.msg) THEN dispatch(w, r, eff.msg) ELSE w,
              r, "error:fn", d, eff.type)

\* runDomAction of defaultEffects.dom, for the frame or timer p: a warning
\* when the selector finds no element, the action (element[name] = value
\* with name "innerHTML" and value "") when it is known, a warning otherwise.
runDomAction(w, p) ==
  IF p.selector \notin DOMAIN w.dom
  THEN Log(w, p.rt, "warn:dom-element-not-found", 0, JsNull, NoMsg, p.selector)
  ELSE IF p.action = "setProperty"
  THEN Log([w EXCEPT !.dom[p.selector].content = Empty], p.rt, "dom-action",
           0, JsNull, NoMsg, p.selector)
  ELSE Log(w, p.rt, "warn:dom-unknown-action", 0, JsNull, NoMsg, p.action)

\* A dom effect that runs its action at once.
domEffectNow(w, r, eff) ==
  runDomAction(w, [kind |-> "dom", rt |-> r, msg |-> NoMsg, onError |-> NoMsg,
                   action |-> eff.action, selector |-> eff.selector,
                   delay |-> eff.delay])

\* defaultEffects.dom: setTimeout(runDomAction, delay) when delay > 0,
\* requestAnimationFrame(runDomAction) otherwise.
domEffect(w, r, eff) ==
  [w EXCEPT !.pending = @ (+) SetToBag({
     [kind |-> "dom", rt |-> r, msg |-> NoMsg, onError |-> NoMsg,
      action |-> eff.action, selector |-> eff.selector,
      delay |-> eff.delay]})]

\* A handler of config.effects: the one under "crashy" throws, any other
\* records that it was called and returns.
userHandler(w, r, d, eff) ==
  IF eff.type = "crashy" THEN Throw(w)
  ELSE Log(w, r, "called", d, JsNull, eff.msg, eff.type)

\* handler(effect, dispatch) for the value found under effect.type.  The
\* Object function, found under "constructor", returns without a trace.
callHandler(w, r, d, eff) ==
  CASE w.rts[r].effectHandlers[eff.type] = "user" -> userHandler(w, r, d, eff)
    [] w.rts[r].effectHandlers[eff.type] = "inherited" -> w
    [] eff.type = "http" -> httpEffect(w, r, eff)
    [] eff.type = "delay" -> delayEffect(w, r, d, eff)
    [] eff.type = "storage" -> storageEffect(w, r, d, eff)
    [] eff.type = "dom" -> domEffect(w, r, eff)
    [] OTHER -> fnEffect(w, r, d, eff)

\* The handler call without the try/catch around it.
sandboxedCallHandlerBare(w, r, d, eff) ==
  callHandler(Log(w, r, "handler", d, JsNull, NoMsg, eff.type), r, d, eff)

\* The try/catch around the handler call.
sandboxedCallHandler(w, r, d, eff) ==
  catchAndLog(callHandler(Log(w, r, "handler", d, JsNull, NoMsg, eff.type),
                          r, d, eff),
              r, "error:handler-threw", d, eff.type)

defaultEffectRunner(w, r, d, eff) ==
  IF eff.tag # "object" \/ eff.type = "" THEN w
  ELSE IF w.rts[r].effectHandlers[eff.type] = "none"
  THEN Log(w, r, "warn:unknown-effect", d, JsNull, NoMsg, eff.type)
  ELSE sandboxedCallHandler(w, r, d, eff)

\* runEffectFn(eff, dispatch, effectHandlers): the configured runner (the
\* debug wrapper only logs).  A "throwing" runner is a user-supplied runner
\* that throws; a "custom" one only records the call.
callRunner(w, r, d, eff) ==
  CASE w.rts[r].runEffectFn.fn = "default" -> defaultEffectRunner(w, r, d, eff)
    [] w.rts[r].runEffectFn.fn = "throwing" -> Throw(w)
    [] OTHER -> w

runEffectFn(w, r, d, eff) ==
  callRunner(Log(w, r, "effect", d, JsNull, eff.msg, eff.type), r, d, eff)

\* The loop ending at the first null or undefined element.
RECURSIVE forEachEffectUntilNull(_, _, _, _, _)
forEachEffectUntilNull(w, r, d, effects, i) ==
  IF i > Len(effects) \/ w.exc \/ effects[i].tag # "object" THEN w
  ELSE forEachEffectUntilNull(
         IF w.rts[r].runEffectFn.fn # "null"
         THEN runEffectFn(w, r, d, effects[i])
         ELSE w,
         r, d, effects, i + 1)

\* effects.forEach(...) of dispatch, from the i-th effect on.  An exception
\* leaves the loop.
RECURSIVE forEachEffect(_, _, _, _, _)
forEachEffect(w, r, d, effects, i) ==
  IF i > Len(effects) \/ w.exc THEN w
  ELSE forEachEffect(
         IF effects[i].tag = "object" /\ w.rts[r].runEffectFn.fn # "null"
         THEN runEffectFn(w, r, d, effects[i])
         ELSE w,
         r, d, effects, i + 1)

\* ------------------------------------------------------------- dispatch
\* The test `!msg` alone.
invalidMessageNullOnly(msg) == ~MsgTruthy(msg)

\* The test `!msg || !msg.type` of dispatch.
invalidMessage(msg) == ~MsgTruthy(msg) \/ ~Truthy(msg.type)

\* An assignment that is lost.
setCurrentStateStale(w, r, d, s) == Log(w, r, "commit", d, s, NoMsg, "")

setCurrentState(w, r, d, s) ==
  Log([w EXCEPT !.rts[r].currentState = s], r, "commit", d, s, NoMsg, "")

\* The array branch with the effects run first and the commit last.
commitAndRunEffectsLate(w, r, d, result) ==
  setCurrentState(forEachEffect(w, r, d, result.effects, 1), r, d, result.state)

\* The array branch: the first element is committed, then the effects run.
commitAndRunEffects(w, r, d, result) ==
  forEachEffect(setCurrentState(w, r, d, result.state), r, d, result.effects, 1)

\* The final render() of dispatch, unless an exception is on its way out.
thenRender(w, r) == IF w.exc THEN w ELSE render(w, r)

\* dispatch with the render placed between the commit and the effects.
afterUpdateRenderFirst(w, r, d) ==
  IF w.exc THEN w
  ELSE IF w.ret.kind = "array"
  THEN forEachEffect(render(setCurrentState(w, r, d, w.ret.state), r),
                     r, d, w.ret.effects, 1)
  ELSE thenRender(setCurrentState(w, r, d, w.ret.state), r)

\* dispatch rendering also when the reducer threw.
afterUpdateRendersOnThrow(w, r, d) ==
  IF w.exc THEN render(w, r)
  ELSE thenRender(IF w.ret.kind = "array"
                  THEN commitAndRunEffects(w, r, d, w.ret)
                  ELSE setCurrentState(w, r, d, w.ret.state),
                  r)

\* dispatch after updateFn has returned (or thrown) in world w.
afterUpdate(w, r, d) ==
  IF w.exc THEN w
  ELSE thenRender(IF w.ret.kind = "array"
                  THEN commitAndRunEffects(w, r, d, w.ret)
                  ELSE setCurrentState(w, r, d, w.ret.state),
                  r)

dispatch(w, r, msg) ==
  IF invalidMessage(msg)
  THEN Log(w, r, "warn:invalid-message", 0, JsNull, msg, "")
  ELSE IF w.rts[r].updateFn.fn = "null" THEN w
  ELSE afterUpdate(callUpdateFn(w, r, Len(w.trace) + 1, msg), r,
                   Len(w.trace) + 1)

\* ----------------------------------------------------------- app, destroy
\* { ...effects, ...defaultEffects }: a built-in overrides a user entry.
mergeEffectsBuiltinWins(effects) ==
  [n \in EffectNames |->
     IF n \in BuiltinNames THEN "builtin"
     ELSE IF n \in effects THEN "user" ELSE Inherited(n)]

\* { ...defaultEffects, ...effects }: a user entry overrides a built-in.
mergeEffects(effects) ==
  [n \in EffectNames |->
     IF n \in effects THEN "user"
     ELSE IF n \in BuiltinNames THEN "builtin" ELSE Inherited(n)]

\* init(), or init itself when it is not a function.
initialState(config) ==
  IF config.init.kind = "function" THEN config.init.value
  ELSE config.init.value

\* The tests !init, !update, !view of app.
InitFalsy(init) ==
  CASE init.kind = "function" -> FALSE
    [] init.kind = "literal" -> ~StateTruthy(init.value)
    [] OTHER -> TRUE
ConfigRejected(config) ==
  InitFalsy(config.init) \/ config.update = "missing" \/ config.view = "missing"

\* app from the assignment of rootElement to the first render.  The
\* subscriptions function is called between the initial State and the first
\* render; the ones modelled dispatch nothing while they set up.
mount(w, r, selector, config) ==
       LET w1 == [w EXCEPT !.rts[r].rootElement = selector,
                           !.rts[r].isDebugMode = config.debug,
                           !.rts[r].updateFn =
                               [fn |-> config.update, debug |-> config.debug],
                           !.rts[r].viewFn = config.view,
                           !.rts[r].effectHandlers = mergeEffects(config.effects),
                           !.rts[r].runEffectFn =
                               [fn |-> config.effectRunner, debug |-> config.debug],
                           !.rts[r].currentState = initialState(config)]
       IN render(Log(w1, r, "init", 0, initialState(config), NoMsg, ""), r)

\* app(selector, config) without the test of init, update and view.
appUnchecked(w, r, selector, config) ==
  IF selector \notin Elements THEN Throw(w)
  ELSE mount(w, r, selector, config)

\* app assigning the reducer and the view before it tests its arguments.
appAssignsFirst(w, r, selector, config) ==
  IF ConfigRejected(config) \/ selector \notin Elements
  THEN Throw([w EXCEPT !.rts[r].updateFn =
                           [fn |-> config.update, debug |-> config.debug],
                       !.rts[r].viewFn = config.view])
  ELSE mount(w, r, selector, config)

\* app(selector, config) up to its return statement.
app(w, r, selector, config) ==
  IF ConfigRejected(config) THEN Throw(w)
  ELSE IF selector \notin Elements THEN Throw(w)
  ELSE mount(w, r, selector, config)

\* A handle returned by app(): the runtime it closes over, the call counts of
\* the cleanup callbacks in its cleanupFns, the destroy() calls made on it,
\* whether it carries the debug object, and the array its debug.history
\* property refers to.
NewHandle(r, config, history) ==
  [rt |-> r, calls |-> [i \in 1..config.subscriptions |-> 0], destroys |-> 0,
   debug |-> config.debug, history |-> history,
   throwing |-> config.throwing]

\* cleanupFns.forEach((fn) => void fn()): the callbacks are called in order,
\* and the exception of one ends the loop.
runCleanupFns(calls, throwing) ==
  [i \in DOMAIN calls |->
     IF throwing = 0 \/ i <= throwing THEN calls[i] + 1 ELSE calls[i]]

\* destroy() over variables that every runtime shares.
destroyShared(w, r) ==
  [w EXCEPT !.rts = [x \in DOMAIN @ |-> NewRuntime(@[x].debugHistory)],
            !.arrays = [a \in DOMAIN @ |-> <<>>],
            !.dom = [e \in DOMAIN @ |-> [content |-> Empty, listeners |-> <<>>]]]

\* The rest of handle.destroy().
destroy(w, r) ==
  LET root == w.rts[r].rootElement
      w1 == IF root # "null"
            THEN [detachEventListeners(w, r, root) EXCEPT
                    !.dom[root].content = Empty]
            ELSE w
  IN [w1 EXCEPT !.rts[r].currentState = JsNull,
                !.rts[r].rootElement = "null",
                !.rts[r].updateFn = NoFn,
                !.rts[r].viewFn = "null",
                !.rts[r].effectHandlers = [n \in EffectNames |-> Inherited(n)],
                !.rts[r].runEffectFn = NoFn,
                !.rts[r].isDebugMode = FALSE,
                !.rts[r].debugHistory = Len(w.arrays) + 1,
                !.arrays = Append(@, <<>>)]

\* timeTravel reading the entry before the one asked for.
timeTravelOffByOne(w, r, index) ==
  IF index >= 1 /\ index <= Len(w.arrays[w.rts[r].debugHistory])
  THEN render([w EXCEPT !.rts[r].currentState =
                            w.arrays[w.rts[r].debugHistory][index].state], r)
  ELSE Log(w, r, "warn:no-history-entry", 0, JsNull, NoMsg, "")

\* handle.debug.timeTravel(index); index counts from 0.
timeTravel(w, r, index) ==
  IF index >= 0 /\ index < Len(w.arrays[w.rts[r].debugHistory])
  THEN render([w EXCEPT !.rts[r].currentState =
                            w.arrays[w.rts[r].debugHistory][index + 1].state], r)
  ELSE Log(w, r, "warn:no-history-entry", 0, JsNull, NoMsg, "")

\* clearHistory as `debugHistory = []`: a new array instead of length = 0.
clearHistoryRebind(w, r) ==
  [w EXCEPT !.rts[r].debugHistory = Len(w.arrays) + 1,
            !.arrays = Append(@, <<>>)]

\* handle.debug.clearHistory()
clearHistory(w, r) == [w EXCEPT !.arrays[w.rts[r].debugHistory] = <<>>]

\* ------------------------------------------------- callbacks of the host
\* The promise chain of defaultEffects.http: a 2xx response reaches the
\* onSuccess callback; anything thrown before or in it reaches the catch
\* callback, which dispatches onError.
httpCatch(w, p, rejected) ==
  IF (rejected \/ w.exc) /\ MsgTruthy(p.onError)
  THEN dispatch(Caught(w), p.rt, p.onError)
  ELSE Caught(w)

httpSettled(w, p, ok) ==
  httpCatch(IF ok /\ MsgTruthy(p.msg) THEN dispatch(w, p.rt, p.msg) ELSE w,
            p, ~ok)

\* The click handler of one handler set: JSON.parse of the button's data-msg
\* and the dispatch, inside a try.
clickHandler(w, r) ==
  catchAndLog(dispatch(w, r, M("Increment")), r, "error:data-msg", 0, "")

\* A click on the button: every handler set on the element runs, in the
\* order added.
RECURSIVE clickListeners(_, _, _)
clickListeners(w, listeners, i) ==
  IF i > Len(listeners) THEN w
  ELSE clickListeners(clickHandler(w, listeners[i]), listeners, i + 1)

\* An element inside a root element, as an event's target: the data-msg
\* attribute of its nearest ancestor-or-self that has one ("absent" when
\* none has), its own data-model attribute ("" when it has none), its type,
\* value and checked properties.
Target(dataMsg, model, type, value, checked) ==
  [dataMsg |-> dataMsg, model |-> model, type |-> type, value |-> value,
   checked |-> checked]

\* The data-msg texts on the page, and JSON.parse of them: the message
\* written by html for {type: "Increment"}, a text cut short, no text.
DataMsgTexts == {"{\"type\":\"Increment\"}", "{\"type\":", ""}
JsonParses(text) == text = "{\"type\":\"Increment\"}"
JsonParse(text) == M("Increment")

\* A JavaScript string or boolean.
StrVal(s) == [t |-> "string", s |-> s, b |-> FALSE]
BoolVal(b) == [t |-> "boolean", s |-> "", b |-> b]

\* {type: "FieldChanged", field, value}
FieldChanged(field, value) ==
  [tag |-> "object", type |-> TStr("FieldChanged"), field |-> field,
   value |-> value]

\* handlers.click without the try around JSON.parse and dispatch.
msgHandlerNoTry(w, r, target) ==
  IF target.dataMsg # "absent" /\ target.dataMsg # ""
  THEN IF JsonParses(target.dataMsg)
       THEN dispatch(w, r, JsonParse(target.dataMsg))
       ELSE Throw(w)
  ELSE w

\* handlers.click, and handlers.submit after e.preventDefault().
msgHandler(w, r, target) ==
  IF target.dataMsg # "absent" /\ target.dataMsg # ""
  THEN catchAndLog(IF JsonParses(target.dataMsg)
                   THEN dispatch(w, r, JsonParse(target.dataMsg))
                   ELSE Throw(w),
                   r, "error:data-msg", 0, "")
  ELSE w

preventDefault(w, r, target) ==
  IF target.dataMsg # "absent" /\ target.dataMsg # ""
  THEN Log(w, r, "preventDefault", 0, JsNull, NoMsg, "")
  ELSE w

\* handlers.input
inputHandler(w, r, target) ==
  IF target.model # ""
  THEN dispatch(w, r, FieldChanged(target.model, StrVal(target.value)))
  ELSE w

\* handlers.change
changeHandler(w, r, target) ==
  IF target.model # ""
  THEN dispatch(w, r, FieldChanged(target.model,
                        IF target.type = "checkbox"
                        THEN BoolVal(target.checked)
                        ELSE StrVal(target.value)))
  ELSE w

\* The handler of runtime r's handler set for the events of one kind.
eventHandler(w, r, kind, target) ==
  CASE kind = "click" -> msgHandler(w, r, target)
    [] kind = "submit" -> msgHandler(preventDefault(w, r, target), r, target)
    [] kind = "input" -> inputHandler(w, r, target)
    [] OTHER -> changeHandler(w, r, target)

\* An event of one kind on a target: every handler set on the root element
\* runs, in the order added; an exception leaving one is reported by the
\* host and the next one still runs.
RECURSIVE eventListeners(_, _, _, _, _)
eventListeners(w, listeners, i, kind, target) ==
  IF i > Len(listeners) THEN w
  ELSE LET w1 == eventHandler(Caught(w), listeners[i], kind, target)
       IN eventListeners([w1 EXCEPT !.exc = w.exc \/ w1.exc], listeners,
                         i + 1, kind, target)

\* ----------------------------------------------------- the template encoder
\* A JavaScript value handed to html: its kind t and what it holds (x): the
\* boolean, the number, the string, the elements of the array, or the fields
\* <<name, value>> of the plain object, in order.  A text is a sequence of
\* pieces, the empty string the empty sequence.
JV(t, x) == [t |-> t, x |-> x]

RECURSIVE JsString(_)
RECURSIVE joinNullShown(_, _, _)
RECURSIVE join(_, _, _)

\* A join that converts every element with String.
joinNullShown(elems, sep, i) ==
  IF i > Len(elems) THEN <<>>
  ELSE (IF i > 1 THEN sep ELSE <<>>) \o JsString(elems[i])
         \o joinNullShown(elems, sep, i + 1)

\* Array.prototype.join(sep), from element i on: a null or undefined element
\* gives the empty string, any other its conversion to a string.
join(elems, sep, i) ==
  IF i > Len(elems) THEN <<>>
  ELSE (IF i > 1 THEN sep ELSE <<>>)
         \o (IF elems[i].t \in {"null", "undefined"} THEN <<>>
             ELSE JsString(elems[i]))
         \o join(elems, sep, i + 1)

\* String(v)
JsString(v) ==
  CASE v.t = "null" -> <<"null">>
    [] v.t = "undefined" -> <<"undefined">>
    [] v.t = "boolean" -> IF v.x THEN <<"true">> ELSE <<"false">>
    [] v.t = "number" -> <<ToString(v.x)>>
    [] v.t = "nan" -> <<"NaN">>
    [] v.t = "string" -> IF v.x = "" THEN <<>> ELSE <<v.x>>
    [] v.t = "symbol" -> <<"Symbol()">>
    [] v.t = "array" -> join(v.x, <<",">>, 1)
    [] OTHER -> <<"[object Object]">>

\* join throws a TypeError when it has to convert a Symbol.
RECURSIVE joinThrows(_)
joinThrows(elems) ==
  \E i \in DOMAIN elems :
    \/ elems[i].t = "symbol"
    \/ elems[i].t = "array" /\ joinThrows(elems[i].x)

\* JSON.stringify of a string, and of the value of a field (<<>>: the field
\* is left out).  The fields modelled hold no arrays and no objects.
Quote(s) == "\"" \o s \o "\""
JsonValue(v) ==
  CASE v.t \in {"null", "nan"} -> <<"null">>
    [] v.t = "boolean" -> IF v.x THEN <<"true">> ELSE <<"false">>
    [] v.t = "number" -> <<ToString(v.x)>>
    [] v.t = "string" -> <<Quote(v.x)>>
    [] OTHER -> <<>>

\* JSON.stringify of a plain object.
RECURSIVE JsonMembers(_, _, _)
JsonMembers(fields, i, first) ==
  IF i > Len(fields) THEN <<>>
  ELSE IF JsonValue(fields[i][2]) = <<>>
  THEN JsonMembers(fields, i + 1, first)
  ELSE (IF first THEN <<>> ELSE <<",">>)
         \o <<Quote(fields[i][1]), ":">> \o JsonValue(fields[i][2])
         \o JsonMembers(fields, i + 1, FALSE)
stringify(v) == <<"{">> \o JsonMembers(v.x, 1, TRUE) \o <<"}">>

\* The test with `typeof value.type === "string"` left out.
looksLikeMessageAnyType(v) ==
  v.t = "object" /\ \E i \in DOMAIN v.x : v.x[i][1] = "type"

\* typeof value === "object" && "type" in value &&
\* typeof value.type === "string"
looksLikeMessage(v) ==
  /\ v.t = "object"
  /\ \E i \in DOMAIN v.x : v.x[i][1] = "type" /\ v.x[i][2].t = "string"

\* The loop body without the branch for true.
interpolateTrueShown(v) ==
  CASE v.t = "array" -> join(v.x, <<>>, 1)
    [] v.t \in {"null", "undefined"} -> <<>>
    [] v.t = "boolean" /\ ~v.x -> <<>>
    [] looksLikeMessage(v) -> <<"'">> \o stringify(v) \o <<"'">>
    [] OTHER -> JsString(v)

\* What one pass of the loop of html adds to result for values[i] = v,
\* before the next fragment.  `values[i] ?? ""` turns null and undefined
\* into the empty string, which `result += value` then adds.
interpolate(v) ==
  CASE v.t = "array" -> join(v.x, <<>>, 1)
    [] v.t \in {"null", "undefined"} -> JsString(JV("string", ""))
    [] v.t = "boolean" /\ ~v.x -> <<>>
    [] v.t = "boolean" /\ v.x -> <<>>
    [] looksLikeMessage(v) -> <<"'">> \o stringify(v) \o <<"'">>
    [] OTHER -> JsString(v)

\* The pass throws a TypeError: join met a Symbol, or `result += value` did.
interpolateThrows(v) ==
  \/ v.t = "array" /\ joinThrows(v.x)
  \/ v.t = "symbol"

\* html(strings, ...values)
RECURSIVE htmlFrom(_, _, _, _)
htmlFrom(result, strings, values, i) ==
  IF i > Len(values) THEN result
  ELSE htmlFrom(result \o interpolate(values[i]) \o strings[i + 1],
                strings, values, i + 1)
html(strings, values) == htmlFrom(strings[1], strings, values, 1)
htmlThrows(values) == \E i \in DOMAIN values : interpolateThrows(values[i])

\* JSON.parse of the text of an object: the values a member can have, the
\* value and the name a piece stands for, the members from piece i on.
ParsedValues ==
  {JV("null", 0), JV("boolean", TRUE), JV("boolean", FALSE),
   JV("number", 0), JV("number", 42), JV("string", ""), JV("string", "abc"),
   JV("string", "Inc")}
ParseValue(piece) == CHOOSE v \in ParsedValues : JsonValue(v) = <<piece>>
ParseName(piece) ==
  CHOOSE s \in {"type", "id", "value", "extra", "name", "count"} :
    Quote(s) = piece
RECURSIVE ParseMembers(_, _)
ParseMembers(pieces, i) ==
  IF pieces[i] = "}" THEN <<>>
  ELSE LET j == IF pieces[i] = "," THEN i + 1 ELSE i
       IN <<<<ParseName(pieces[j]), ParseValue(pieces[j + 2])>>>>
            \o ParseMembers(pieces, j + 3)
parse(pieces) == JV("object", ParseMembers(pieces, 2))

\* ------------------------------------------------------------ the system
VARIABLES
  runtimes,  \* the runtimes createSpriggan() has returned
  rts,       \* per runtime, its closed-over variables
  dom,       \* per element, its content and its click/input/change/submit listeners
  pending,   \* the bag of timers and requests in flight
  arrays,    \* the history arrays allocated so far
  handles,   \* the handles app() has returned, in order
  trace,     \* what the call of this turn of the event loop did, in order
  limit,     \* the calls the page makes, and whether host callbacks count as calls
  op,        \* that call: its kind, runtime, handle and arguments, whether it threw
  calls,     \* the calls made so far
  enc,       \* a call of html: its arguments and, once made, what it returned
  stale      \* of the timers and requests in flight, those whose runtime was
             \* destroyed after they were set

vars ==
  <<runtimes, rts, dom, pending, arrays, handles, trace, op, calls, limit,
    enc, stale>>

RuntimeIds == {1, 2}

\* The messages a caller passes to dispatch.
ValidMsgs ==
  { M("Increment"), M("LoadData"), M("Fetch"), M("SaveData"), M("RunFn"),
    M("Trigger"), M("Multi"), M("Boom"), M("Undef"), M("Other") }
NoTypeMsgs == { NullMsg, UndefinedMsg, Msg(TAbsent) }
OddTypeMsgs == { Msg(TStr("")), Msg(TNum(5)), Msg(TObj), Msg(TSym) }
DispatchMsgs == ValidMsgs \cup NoTypeMsgs \cup OddTypeMsgs

\* The indexes passed to timeTravel.
TimeTravelIndexes == {-1, 0, 1, 2}

\* A call: its kind, runtime, handle, message, index, whether it threw, and
\* its other arguments (app: the selector and the config; a click: the
\* element).
OpWith(k, r, h, m, i, threw, arg) ==
  [kind |-> k, rt |-> r, h |-> h, msg |-> m, idx |-> i, threw |-> threw,
   arg |-> arg]
Op(k, r, h, m, i, threw) == OpWith(k, r, h, m, i, threw, <<>>)

World ==
  [rts |-> rts, dom |-> dom, pending |-> pending, arrays |-> arrays,
   trace |-> <<>>, exc |-> FALSE, ret |-> Plain(JsUndefined)]

NoOp == Op("none", 0, 0, NoMsg, 0, FALSE)

\* destroy() of runtime r cancels nothing: every timer and request of r in
\* flight stays in flight, set by an application that is no more.
Outlived(inFlight, r) ==
  LET S == {p \in BagToSet(inFlight) : p.rt = r} \cup
           {p \in BagToSet(stale) : p.rt # r}
  IN [p \in S |-> IF p.rt = r THEN inFlight[p] ELSE stale[p]]

\* Timer or request p leaves: one set before the last destroy() of its
\* runtime, or one set since.
Leaves(p) ==
  \E old \in BOOLEAN :
    /\ IF old THEN CopiesIn(p, stale) > 0
              ELSE CopiesIn(p, pending) > CopiesIn(p, stale)
    /\ stale' = IF old THEN stale (-) SetToBag({p}) ELSE stale

\* The call runs in a turn of its own and has returned (or thrown) in world
\* w: the world becomes the state.
Returns(w, k, r, h, m, i, arg) ==
  /\ op = NoOp
  /\ k \notin {"timer", "http-ok", "http-failed", "dom"} =>
       stale' = IF k = "destroy" /\ ~w.exc THEN Outlived(w.pending, r) ELSE stale
  /\ rts' = w.rts
  /\ dom' = w.dom
  /\ pending' = w.pending
  /\ arrays' = w.arrays
  /\ trace' = w.trace
  /\ op' = OpWith(k, r, h, m, i, w.exc, arg)
  /\ limit' = limit
  /\ enc' = enc

\* A call made by the page's script, or an event caused by its user.
CommitWith(w, k, r, h, m, i, arg) ==
  /\ calls < limit.calls
  /\ calls' = calls + 1
  /\ Returns(w, k, r, h, m, i, arg)

Commit(w, k, r, h, m, i) == CommitWith(w, k, r, h, m, i, <<>>)

\* A callback run by the host: a timer, a response.
HostCommit(w, k, r, h, m, i, arg) ==
  /\ limit.host => calls < limit.calls
  /\ calls' = IF limit.host THEN calls + 1 ELSE calls
  /\ Returns(w, k, r, h, m, i, arg)

\* A call of html with the fragments and values of one template.
Template(strings, values) ==
  [strings |-> strings, values |-> values, out |-> <<>>, threw |-> FALSE,
   called |-> FALSE]
NoTemplate == Template(<<<<>>>>, <<>>)

InitPage(ids, maxCalls, host, templates) ==
  /\ enc \in templates
  /\ runtimes = ids
  /\ limit = [calls |-> maxCalls, host |-> host]
  /\ rts = [r \in RuntimeIds |-> NewRuntime(r)]
  /\ arrays = [r \in RuntimeIds |-> <<>>]
  /\ dom = [e \in Elements |-> [content |-> Empty, listeners |-> <<>>]]
  /\ pending = EmptyBag
  /\ stale = EmptyBag
  /\ handles = <<>>
  /\ trace = <<>>
  /\ op = NoOp
  /\ calls = 0

InitWith(ids, maxCalls, host) == InitPage(ids, maxCalls, host, {NoTemplate})

\* One page with one runtime; one page with two; one page with one runtime
\* whose host callbacks are not counted as calls.
Init == InitWith({1}, MaxCalls, TRUE)
InitTwo == InitWith({1, 2}, MaxCallsTwo, TRUE)
InitLive == InitWith({1}, MaxCallsLive, FALSE)
InitEvents == InitWith({1}, MaxCallsEvents, TRUE)

\* app() returns a new handle unless it threw.
AppReturns(w, r, selector, config) ==
  /\ handles' = IF w.exc THEN handles
                ELSE Append(handles,
                            NewHandle(r, config, w.rts[r].debugHistory))
  /\ CommitWith(w, "app", r, IF w.exc THEN 0 ELSE Len(handles) + 1, NoMsg, 0,
                <<selector, config>>)

\* app(selector, config) on runtime r.
App(r, selector, config) ==
  /\ AppReturns(app(World, r, selector, config), r, selector, config)
  /\ UNCHANGED runtimes

\* handle.dispatch(msg)
Dispatch(h, msg) ==
  /\ Commit(dispatch(World, handles[h].rt, msg), "dispatch", handles[h].rt,
            h, msg, 0)
  /\ UNCHANGED <<runtimes, handles>>

\* handle.getState()
getState(h) == rts[handles[h].rt].currentState

\* handle.destroy()
Destroy(h) ==
  /\ handles' = [handles EXCEPT
                   ![h].calls = runCleanupFns(@, handles[h].throwing),
                   ![h].destroys = @ + 1]
  /\ Commit(IF handles[h].throwing > 0 THEN Throw(World)
            ELSE destroy(World, handles[h].rt),
            "destroy", handles[h].rt, h, NoMsg, 0)
  /\ UNCHANGED runtimes

\* handle.debug.timeTravel(index)
TimeTravel(h, index) ==
  /\ handles[h].debug
  /\ Commit(timeTravel(World, handles[h].rt, index), "timeTravel",
            handles[h].rt, h, NoMsg, index)
  /\ UNCHANGED <<runtimes, handles>>

\* handle.debug.clearHistory()
ClearHistory(h) ==
  /\ handles[h].debug
  /\ Commit(clearHistory(World, handles[h].rt), "clearHistory",
            handles[h].rt, h, NoMsg, 0)
  /\ UNCHANGED <<runtimes, handles>>

\* The world once timer or request p is no longer in flight.
Taken(p) == [World EXCEPT !.pending = pending (-) SetToBag({p})]

\* The timer of a delay effect elapses.
TimerFires(p) ==
  /\ p.kind = "delay"
  /\ Leaves(p)
  /\ HostCommit(dispatch(Taken(p), p.rt, p.msg), "timer", p.rt, 0, p.msg, 0,
                <<>>)
  /\ UNCHANGED <<runtimes, handles>>

\* How a request can settle: a 2xx response whose body is read, a 2xx
\* response whose body cannot be read (response.json() rejects), a response
\* with another status, or no response (fetch rejects).
HttpOutcomes == {"2xx", "2xx-unreadable", "non-2xx", "network-error"}
ResponseOutcomes == {"2xx", "non-2xx"}
Is2xx(outcome) == outcome \in {"2xx", "2xx-unreadable"}

\* The request of an http effect settles.  The first callback of the chain
\* returns the body only for the outcome "2xx" and throws or is skipped for
\* the others.
HttpSettles(p, outcome) ==
  /\ p.kind = "http"
  /\ Leaves(p)
  /\ HostCommit(httpSettled(Taken(p), p, outcome = "2xx"),
                IF outcome = "2xx" THEN "http-ok" ELSE "http-failed", p.rt, 0,
                p.msg, 0, <<outcome, p.onError>>)
  /\ UNCHANGED <<runtimes, handles>>

\* The animation frame or the timer of a dom effect comes.
DomRuns(p) ==
  /\ p.kind = "dom"
  /\ Leaves(p)
  /\ HostCommit(runDomAction(Taken(p), p), "dom", p.rt, 0, NoMsg, 0, <<p>>)
  /\ UNCHANGED <<runtimes, handles>>

\* The user clicks the button rendered in element e.
Click(e) ==
  /\ dom[e].content.html = "button"
  /\ CommitWith(clickListeners(World, dom[e].listeners, 1), "click", 0, 0,
                M("Increment"), 0, <<e>>)
  /\ UNCHANGED <<runtimes, handles>>

\* The kinds of event a handler set listens to, and the targets on the page.
EventKinds == {"click", "input", "change", "submit"}
Targets ==
  { Target(a, m, ty, IF ty = "checkbox" THEN "on" ELSE "abc", c) :
      a \in DataMsgTexts \cup {"absent"}, m \in {"", "agree"},
      ty \in {"checkbox", "text"}, c \in BOOLEAN }

\* An event of one kind reaches element e from a target inside it.
Fire(e, kind, target) ==
  /\ dom[e].content.html = "button"
  /\ CommitWith(eventListeners(World, dom[e].listeners, 1, kind, target),
                "event", 0, 0, NoMsg, 0, <<e, kind, target>>)
  /\ UNCHANGED <<runtimes, handles>>

\* The turn ends: control is back in the event loop.
TurnEnds ==
  /\ op # NoOp
  /\ op' = NoOp
  /\ trace' = <<>>
  /\ UNCHANGED <<runtimes, rts, dom, pending, arrays, handles, calls, limit,
                 enc, stale>>

Next ==
  \/ \E r \in runtimes, c \in AppCalls : App(r, c[1], c[2])
  \/ \E h \in DOMAIN handles, m \in DispatchMsgs : Dispatch(h, m)
  \/ \E h \in DOMAIN handles : Destroy(h)
  \/ \E h \in DOMAIN handles, i \in TimeTravelIndexes : TimeTravel(h, i)
  \/ \E h \in DOMAIN handles : ClearHistory(h)
  \/ \E p \in BagToSet(pending) : TimerFires(p)
  \/ \E p \in BagToSet(pending), o \in ResponseOutcomes : HttpSettles(p, o)
  \/ \E e \in Elements : Click(e)
  \/ TurnEnds

Spec == Init /\ [][Next]_vars
SpecTwo == InitTwo /\ [][Next]_vars

\* The host runs every timer and settles every request in the end, and every
\* turn ends.
Fairness ==
  /\ WF_vars(TurnEnds)
  /\ WF_vars(\E p \in BagToSet(pending) : TimerFires(p))
  /\ WF_vars(\E p \in BagToSet(pending), o \in HttpOutcomes : HttpSettles(p, o))

\* The page whose timers and requests all run to their end: one application
\* and the messages whose effects set timers and start requests.
LiveAppCalls == { <<"#app", Plain1>> }
LiveMsgs ==
  { M("Increment"), M("LoadData"), M("Fetch"), M("FetchBoom"), M("Multi") }

NextLive ==
  \/ \E r \in runtimes, c \in LiveAppCalls : App(r, c[1], c[2])
  \/ \E h \in DOMAIN handles, m \in LiveMsgs : Dispatch(h, m)
  \/ \E h \in DOMAIN handles : Destroy(h)
  \/ \E p \in BagToSet(pending) : TimerFires(p)
  \/ \E p \in BagToSet(pending), o \in HttpOutcomes : HttpSettles(p, o)
  \/ TurnEnds

SpecLive == InitLive /\ [][NextLive]_vars /\ Fairness

\* The page whose reducer returns dom effects.
DomMsgs ==
  { M("Increment"), M("Clear"), M("ClearLater"), M("ClearMissing"),
    M("Bogus") }

NextDom ==
  \/ \E r \in runtimes, c \in LiveAppCalls : App(r, c[1], c[2])
  \/ \E h \in DOMAIN handles, m \in DomMsgs : Dispatch(h, m)
  \/ \E h \in DOMAIN handles : Destroy(h)
  \/ \E p \in BagToSet(pending) : DomRuns(p)
  \/ TurnEnds

SpecDom == InitLive /\ [][NextDom]_vars

\* The page whose elements receive events: one application, mounted with
\* and without debug mode, or with a cleanup callback that throws.
EventAppCalls ==
  { <<"#app", Plain1>>, <<"#app", Debug2>>, <<"#app", Crash2>> }

NextEvents ==
  \/ \E r \in runtimes, c \in EventAppCalls : App(r, c[1], c[2])
  \/ \E h \in DOMAIN handles : Destroy(h)
  \/ \E e \in Elements, k \in EventKinds, t \in Targets : Fire(e, k, t)
  \/ TurnEnds

SpecEvents == InitEvents /\ [][NextEvents]_vars

\* The values interpolated: scalars, plain objects with and without a
\* string type field, arrays of up to MaxElems elements; and the templates:
\* one interpolation of any of them, or up to MaxValues interpolations of
\* the values of conditional rendering.
Scalars ==
  {JV("null", 0), JV("undefined", 0), JV("boolean", FALSE),
   JV("boolean", TRUE), JV("number", 0), JV("number", 42), JV("nan", 0),
   JV("string", ""), JV("string", "abc"), JV("symbol", 0)}
Objects ==
  {JV("object", <<<<"type", JV("string", "Inc")>>>>),
   JV("object", <<<<"type", JV("string", "Inc")>>, <<"id", JV("number", 42)>>,
                  <<"value", JV("string", "abc")>>>>),
   JV("object", <<<<"name", JV("string", "abc")>>,
                  <<"count", JV("number", 42)>>>>),
   JV("object", <<<<"type", JV("number", 42)>>>>)}
    \cup {JV("object", <<<<"type", JV("string", "Inc")>>, <<"extra", v>>>>) :
            v \in Scalars}
Elems ==
  Scalars \cup {JV("array", <<JV("number", 42), JV("null", 0)>>),
                JV("object", <<<<"type", JV("string", "Inc")>>>>),
                JV("object", <<<<"name", JV("string", "abc")>>>>)}
Arrays == {JV("array", a) : a \in UNION {[1..n -> Elems] : n \in 0..MaxElems}}
Conditionals ==
  {JV("null", 0), JV("undefined", 0), JV("boolean", FALSE),
   JV("boolean", TRUE), JV("string", "abc"), JV("number", 42)}
Fragments(n) == [i \in 1..(n + 1) |-> <<"f" \o ToString(i)>>]
Templates ==
  {Template(Fragments(1), <<v>>) : v \in Scalars \cup Objects \cup Arrays}
    \cup {Template(Fragments(Len(vs)), vs) :
            vs \in UNION {[1..n -> Conditionals] : n \in 0..MaxValues}}

InitHtml == InitPage({1}, 0, FALSE, Templates)

\* html`...` is called.
Html ==
  /\ ~enc.called
  /\ enc' = [enc EXCEPT !.called = TRUE,
                        !.threw = htmlThrows(enc.values),
                        !.out = IF htmlThrows(enc.values) THEN <<>>
                                ELSE html(enc.strings, enc.values)]
  /\ UNCHANGED <<runtimes, rts, dom, pending, arrays, handles, trace, op,
                 calls, limit, stale>>

SpecHtml == InitHtml /\ [][Html]_vars

\* --------------------------------------------------------- reading a trace
\* The positions of tr that hold an event of kind k.
Positions(tr, k) == {i \in DOMAIN tr : tr[i].kind = k}

Last(S) == CHOOSE x \in S : \A y \in S : y <= x

\* What the reducer returned to the invocation recorded in event ev.
ResultOf(ev) == update(ev.state, ev.msg)

\* The State runtime r holds just before position i of tr, when it held
\* `before` at the start of the call.
StateBefore(tr, i, r, before) ==
  LET prior == {j \in 1..(i - 1) :
                  tr[j].rt = r /\ tr[j].kind \in {"commit", "init"}}
  IN IF prior = {} THEN before ELSE tr[Last(prior)].state

\* The reducer invocation of runtime r that is the latest before position i.
LastUpdateBefore(tr, i, r) ==
  LET prior == {j \in 1..(i - 1) : tr[j].rt = r /\ tr[j].kind = "update"}
  IN IF prior = {} THEN 0 ELSE Last(prior)

\* The effects of a result (null and undefined entries are no effects), and
\* the effects handed to the runner for the reducer invocation at position d.
EffectsOf(result) == SelectSeq(result.effects, LAMBDA eff : eff.tag = "object")
Handed(tr, d) == SelectSeq(tr, LAMBDA ev : ev.kind = "effect" /\ ev.d = d)
SameEffects(handed, effects) ==
  /\ Len(handed) = Len(effects)
  /\ \A k \in DOMAIN handed :
       handed[k].type = effects[k].type /\ handed[k].msg = effects[k].msg

\* handle.dispatch(m) with a string type has returned, and the instance was
\* mounted: the call began with the reducer.
DispatchReturned ==
  /\ op.kind = "dispatch"
  /\ ~op.threw
  /\ op.msg.tag = "object" /\ op.msg.type.t = "string"
  /\ trace # <<>>
  /\ trace[1].kind = "update"

\* ------------------------------------------------------------------ claims
\* C1 as stated: after dispatch(m) returns on a mounted instance, getState()
\* is the State the reducer returned for (s, m), whatever effects came with
\* it.
C1_StateIsReducerResult ==
  DispatchReturned => getState(op.h) = ResultOf(trace[1]).state

\* C1, amended: dispatch(m) commits the State the reducer returned for (s, m)
\* before any effect runs, and after it returns getState() is the State
\* returned by the last reducer invocation made during the call: that of
\* (s, m) itself unless a storage or fn effect dispatched a follow-up message
\* synchronously.
C1_StateIsLastReducerResult ==
  DispatchReturned =>
    /\ \E j \in Positions(trace, "commit") :
         /\ trace[j].d = 1
         /\ trace[j].state = ResultOf(trace[1]).state
         /\ \A i \in 2..(j - 1) : trace[i].kind = "warn:update-undefined"
    /\ getState(op.h) = ResultOf(trace[Last(Positions(trace, "update"))]).state
    /\ Cardinality(Positions(trace, "update")) = 1 =>
         getState(op.h) = ResultOf(trace[1]).state

\* C1's case: dispatch({type: "SaveData"}) has returned and getState() is the
\* State of the storage effect's follow-up, not the one returned for SaveData.
C1_SyncFollowUpSeen ==
  /\ DispatchReturned
  /\ op.msg = M("SaveData")
  /\ Cardinality(Positions(trace, "update")) = 2
  /\ getState(op.h) # ResultOf(trace[1]).state

\* C2: every reducer invocation receives the State most recently committed on
\* its runtime (by app, by the previous reducer invocation, by timeTravel),
\* and every commit is the result of the latest reducer invocation: no
\* older dispatch overwrites a newer State.
C2_ReducerSeesLatestCommit ==
  [][\A i \in DOMAIN trace' :
       /\ trace'[i].kind = "update" =>
            trace'[i].state =
              StateBefore(trace', i, trace'[i].rt,
                          rts[trace'[i].rt].currentState)
       /\ trace'[i].kind = "commit" =>
            /\ trace'[i].d = LastUpdateBefore(trace', i, trace'[i].rt)
            /\ trace'[i].state = ResultOf(trace'[trace'[i].d]).state]_vars

\* C2's case: a follow-up dispatched synchronously by an effect handler ran
\* the reducer on the State the outer invocation had just committed.
C2_NestedUpdateSeen ==
  \E i, j \in Positions(trace, "update") :
    /\ i < j
    /\ trace[j].state = ResultOf(trace[i]).state
    /\ trace[j].state # trace[i].state

\* C3 as stated: a dispatch of a valid message through a handle whose
\* destroy() has returned is absorbed: no reducer, view or effect runs,
\* getState() stays null and nothing is thrown.
C3_DispatchAfterDestroyAbsorbed ==
  (op.kind = "dispatch" /\ handles[op.h].destroys > 0
     /\ op.msg \in ValidMsgs) =>
    trace = <<>> /\ getState(op.h) = JsNull /\ ~op.threw

\* C4 as stated: every cleanup callback of a handle has been invoked exactly
\* once when destroy() was called on it, however often, and never before.
C4_CleanupExactlyOnce ==
  \A h \in DOMAIN handles : \A i \in DOMAIN handles[h].calls :
    handles[h].calls[i] = IF handles[h].destroys > 0 THEN 1 ELSE 0

\* In world w, the outcome of a dispatch of Increment made in the current
\* state, runtime r holds the next count and nothing was thrown.
IncrementedBy(w, r) ==
  ~w.exc /\ w.rts[r].currentState = Bump(rts[r].currentState)

\* C5: when a handler called by the default effect runner throws, the call
\* does not throw, the State of the reducer's result is committed, the error
\* is logged with the effect's type, every effect of the result is still
\* handed to the runner and its handler called, and a dispatch made next is
\* processed by the reducer.
C5_HandlerThrowContained ==
  \A j \in DOMAIN trace :
    (trace[j].kind = "handler" /\ trace[j].type = "crashy") =>
      /\ ~op.threw
      /\ j < Len(trace)
      /\ trace[j + 1] = Ev("error:handler-threw", trace[j].rt, trace[j].d,
                           JsNull, NoMsg, trace[j].type)
      /\ \E c \in 1..(j - 1) :
           trace[c] = Ev("commit", trace[j].rt, trace[j].d,
                         ResultOf(trace[trace[j].d]).state, NoMsg, "")
      /\ rts[trace[j].rt].currentState = ResultOf(trace[trace[j].d]).state
      /\ SameEffects(Handed(trace, trace[j].d),
                     EffectsOf(ResultOf(trace[trace[j].d])))
      /\ \A eff \in {Handed(trace, trace[j].d)[k] :
                       k \in DOMAIN Handed(trace, trace[j].d)} :
           \E i \in Positions(trace, "handler") :
             trace[i].d = trace[j].d /\ trace[i].type = eff.type
      /\ IncrementedBy(dispatch(World, trace[j].rt, M("Increment")), trace[j].rt)

\* C5's case: dispatch({type: "Trigger"}) has returned, the crashy handler
\* threw and the delay effect after it started its timer.
C5_CrashThenDelaySeen ==
  /\ op = Op("dispatch", 1, 1, M("Trigger"), 0, FALSE)
  /\ \E j \in Positions(trace, "error:handler-threw") :
       \E i \in Positions(trace, "handler") : j < i /\ trace[i].type = "delay"
  /\ Pending("delay", 1, M("Increment"), NoMsg) \in BagToSet(pending)

\* C6 as stated: no call of dispatch throws.
C6_DispatchNeverThrows == op.kind = "dispatch" => ~op.threw

\* C7: dispatch of null, of undefined or of an object without a type field
\* runs no reducer, view or effect, leaves every runtime, the document and
\* the timers as they were, does not throw and logs exactly one warning,
\* whether the runtime is mounted or destroyed.
C7_NoTypeIgnoredWithOneWarning ==
  [][(op'.kind = "dispatch" /\ op'.msg \in NoTypeMsgs) =>
       /\ rts' = rts /\ dom' = dom /\ pending' = pending
       /\ ~op'.threw
       /\ trace' = <<Ev("warn:invalid-message", op'.rt, 0, JsNull, op'.msg, "")>>]_vars

\* C7's case: such a dispatch on a destroyed handle has logged its warning.
C7_WarnedAfterDestroy ==
  /\ op.kind = "dispatch"
  /\ op.msg \in NoTypeMsgs
  /\ handles[op.h].destroys > 0
  /\ Cardinality(Positions(trace, "warn:invalid-message")) = 1

\* C8 as stated: a dispatch of a message whose type is absent or not a
\* string logs the warning and does not invoke the reducer.
C8_NonStringTypeRejected ==
  (op.kind = "dispatch"
     /\ (op.msg.tag # "object" \/ op.msg.type.t # "string")) =>
    /\ Positions(trace, "update") = {}
    /\ Positions(trace, "warn:invalid-message") # {}

\* The handler sets of runtime r among the listeners of the document d.
ListenersOf(d, r) ==
  [e \in Elements |-> SelectSeq(d[e].listeners, LAMBDA x : x = r)]

\* C9: a call on one runtime (app, dispatch, destroy, timeTravel,
\* clearHistory, or a timer or response of its effects) leaves every other
\* runtime's variables (its State and debug history among them) and its
\* listeners as they were.
C9_RuntimesIsolated ==
  [][\A r \in RuntimeIds :
       (op'.rt # r /\ op'.rt # 0 /\ op'.kind # "none") =>
         /\ rts'[r] = rts[r]
         /\ arrays'[rts'[r].debugHistory] = arrays[rts[r].debugHistory]
         /\ ListenersOf(dom', r) = ListenersOf(dom, r)]_vars

\* C9's case: both runtimes are mounted with their listeners attached and a
\* dispatch on runtime 1 has changed its State alone.
C9_BothMountedOneChanged ==
  /\ op.kind = "dispatch" /\ op.rt = 1
  /\ rts[1].currentState = St(1)
  /\ rts[2].currentState = St(0)
  /\ rts[1].eventListenersAttached /\ rts[2].eventListenersAttached

\* C10 as stated: the effects a reducer invocation returned are handed to
\* the effect runner each exactly once, in the order of the array, before
\* the call that ran the reducer ends.
C10_EffectsHandedOnceInOrder ==
  \A d \in Positions(trace, "update") :
    ResultOf(trace[d]).kind = "array" =>
      SameEffects(Handed(trace, d), EffectsOf(ResultOf(trace[d])))

\* The positions of tr at which an effect of the reducer invocation at
\* position d was handed to the runner, and the first of a set of positions.
HandedAt(tr, d) == {i \in DOMAIN tr : tr[i].kind = "effect" /\ tr[i].d = d}
First(S) == CHOOSE x \in S : \A y \in S : x <= y

\* C11 as stated: within a dispatch whose reducer returned
\* [newState, ...effects], the view is rendered with newState before the
\* first of the returned effects is handed to the effect runner.
C11_RenderBeforeEffects ==
  \A d \in Positions(trace, "update") :
    (ResultOf(trace[d]).kind = "array" /\ HandedAt(trace, d) # {}) =>
      \E v \in Positions(trace, "view") :
        /\ d < v /\ v < First(HandedAt(trace, d))
        /\ trace[v].rt = trace[d].rt
        /\ trace[v].state = ResultOf(trace[d]).state

\* C11, amended: the order per dispatch is reducer, commit, effects, render.
\* No render comes between the reducer's return and the first returned
\* effect, and a dispatch that returns renders after the last of its effects
\* was handed to the runner, with the State current by then.
C11_EffectsBeforeRender ==
  /\ \A d \in Positions(trace, "update") :
       (ResultOf(trace[d]).kind = "array" /\ HandedAt(trace, d) # {}) =>
         \A i \in d..First(HandedAt(trace, d)) : trace[i].kind # "view"
  /\ (DispatchReturned /\ ResultOf(trace[1]).kind = "array"
        /\ HandedAt(trace, 1) # {}) =>
       /\ trace[Len(trace)].kind = "view"
       /\ Len(trace) > Last(HandedAt(trace, 1))
       /\ trace[Len(trace)].state = getState(op.h)

\* C11's case: dispatch({type: "LoadData"}) has returned; its delay effect
\* was handed to the runner and the view was rendered after it.
C11_EffectThenViewSeen ==
  /\ DispatchReturned
  /\ op.msg = M("LoadData")
  /\ Len(Handed(trace, 1)) = 1
  /\ Handed(trace, 1)[1].type = "delay"
  /\ trace[Len(trace)].kind = "view"
  /\ trace[Len(trace)].state = ResultOf(trace[1]).state

\* A dispatch call on a handle ran the reducer: the message was accepted and
\* the instance mounted.
DispatchAccepted ==
  /\ op.kind = "dispatch"
  /\ trace # <<>>
  /\ trace[1].kind = "update"

\* C12 as stated: every accepted dispatch on a live instance invokes the
\* view, and the State last passed to the view is the one getState() returns
\* once the call is over.
C12_AcceptedDispatchRenders ==
  DispatchAccepted =>
    /\ Positions(trace, "view") # {}
    /\ trace[Last(Positions(trace, "view"))].state = getState(op.h)

\* The runtimes whose mount root is element e.
MountedOn(e) == {r \in runtimes : rts[r].rootElement = e}

\* C13 as stated: a mount root never has more than one handler set of its
\* runtime listening on it, and one click on the data-msg button of a mount
\* root causes exactly one reducer invocation.
C13_OneListenerOneInvocation ==
  /\ \A r \in runtimes :
       rts[r].rootElement # "null" =>
         Len(ListenersOf(dom, r)[rts[r].rootElement]) <= 1
  /\ (op.kind = "click" /\ MountedOn(op.arg[1]) # {}) =>
       Cardinality(Positions(trace, "update")) = 1

\* C14 as stated: when destroy() returns, getState() is null, the mount root
\* is empty, no handler set of the runtime listens on any element, and the
\* listener bookkeeping is reset.
C14_DestroyClearsAll ==
  [][op'.kind = "destroy" =>
       /\ rts'[op'.rt].currentState = JsNull
       /\ rts[op'.rt].rootElement # "null" =>
            dom'[rts[op'.rt].rootElement].content = Empty
       /\ \A e \in Elements : ListenersOf(dom', op'.rt)[e] = <<>>
       /\ ~rts'[op'.rt].eventListenersAttached
       /\ rts'[op'.rt].boundEventHandlers = "null"]_vars

\* config lacks one of init, update, view.
FieldMissing(config) ==
  \/ config.init.kind = "missing"
  \/ config.update = "missing"
  \/ config.view = "missing"

\* C15: app(selector, config) with init, update or view missing, or with a
\* selector that matches no element, throws and returns no handle; init, the
\* subscriptions function and the view are not invoked, and the runtime, the
\* document and the timers are left as they were.
C15_AppRejectsBadInput ==
  [][(op'.kind = "app"
        /\ (FieldMissing(op'.arg[2]) \/ op'.arg[1] \notin Elements)) =>
       /\ op'.threw
       /\ op'.h = 0
       /\ handles' = handles
       /\ trace' = <<>>
       /\ rts' = rts /\ dom' = dom /\ pending' = pending
       /\ arrays' = arrays]_vars

\* C15's case: app() was called without a view on a runtime that an earlier
\* call had mounted, and threw.
C15_RejectedOnMountedSeen ==
  /\ op.kind = "app"
  /\ op.arg = <<"#app", NoView>>
  /\ op.threw
  /\ rts[op.rt].rootElement # "null"

\* C16 as stated: app() with init, update and view present and a selector
\* that matches succeeds, and getState() is then the value init() returned
\* or the literal init, falsy literals included.
C16_InitialStateIsInit ==
  (op.kind = "app" /\ ~FieldMissing(op.arg[2]) /\ op.arg[1] \in Elements) =>
    /\ ~op.threw
    /\ getState(op.h) = op.arg[2].init.value

\* In the trace, each call of a handler found under a name the user
\* registered is a call of the user's handler (which records it or throws),
\* and each call under a name only the built-ins have is not.
UserHandlersRun ==
  \A i \in Positions(trace, "handler") :
    LET found == rts[trace[i].rt].effectHandlers[trace[i].type]
        next == IF i < Len(trace) THEN trace[i + 1].kind ELSE "none"
    IN /\ found = "user" =>
            /\ next \in {"called", "error:handler-threw"}
            /\ trace[i + 1].type = trace[i].type
       /\ found = "builtin" => next # "called"

\* C17: after app(selector, config) the handler of a name is the user's
\* whenever config.effects has that name, built-in names included, and the
\* built-in one only for built-in names the user did not register; the
\* handler that then runs for an effect is the one so chosen.
C17_UserHandlerOverrides ==
  [][/\ (op'.kind = "app" /\ ~op'.threw) =>
          \A n \in EffectNames :
            /\ n \in op'.arg[2].effects =>
                 rts'[op'.rt].effectHandlers[n] = "user"
            /\ n \in BuiltinNames \ op'.arg[2].effects =>
                 rts'[op'.rt].effectHandlers[n] = "builtin"
     /\ UserHandlersRun']_vars

\* C17's case: the config registered a handler under the built-in name fn;
\* dispatch({type: "RunFn"}) ran the user's handler, and the built-in fn,
\* which would have dispatched onComplete at once, did not run.
C17_UserFnSeen ==
  /\ DispatchReturned
  /\ op.msg = M("RunFn")
  /\ \E i \in Positions(trace, "called") :
       trace[i].type = "fn" /\ trace[i - 1].kind = "handler"
  /\ Cardinality(Positions(trace, "update")) = 1

\* The event after position i of tr (of kind "none" when i is the last).
NextEvent(tr, i) ==
  IF i < Len(tr) THEN tr[i + 1] ELSE Ev("none", 0, 0, JsNull, NoMsg, "")

\* C18 as stated: an effect run by the default runner under a name with a
\* built-in or user handler has that handler called, once; under any other
\* name no handler is called, one warning naming it is logged, the State of
\* the result was committed and the call does not throw.
C18_RegisteredRunsUnknownWarns ==
  \A i \in Positions(trace, "effect") :
    rts[trace[i].rt].runEffectFn.fn = "default" =>
      IF rts[trace[i].rt].effectHandlers[trace[i].type] \in {"user", "builtin"}
      THEN /\ NextEvent(trace, i).kind = "handler"
           /\ NextEvent(trace, i).type = trace[i].type
      ELSE /\ NextEvent(trace, i).kind = "warn:unknown-effect"
           /\ NextEvent(trace, i).type = trace[i].type
           /\ \E j \in Positions(trace, "commit") :
                j < i /\ trace[j].d = trace[i].d
           /\ ~op.threw

\* The history entries for the reducer invocations of runtime r recorded in
\* tr, in order: all of them, or only those that returned.
Entry(ev) == [msg |-> ev.msg, state |-> ResultOf(ev).state]
Invoked(tr, r) == SelectSeq(tr, LAMBDA ev : ev.kind = "update" /\ ev.rt = r)
Returned(tr, r) ==
  SelectSeq(Invoked(tr, r), LAMBDA ev : ResultOf(ev).kind # "throw")
Entries(evs) == [k \in DOMAIN evs |-> Entry(evs[k])]

\* The handles that carry a debug object, whose runtime is mounted in debug
\* mode and was not destroyed since they were returned.
DebugHandles ==
  {h \in DOMAIN handles :
     /\ handles[h].debug
     /\ rts[handles[h].rt].updateFn.debug
     /\ handles[h].history = rts[handles[h].rt].debugHistory}

C21_UndefinedStateWarned ==
  \A i \in Positions(trace, "update") :
    (/\ rts[trace[i].rt].updateFn.debug
     /\ ResultOf(trace[i]).kind # "throw"
     /\ ResultOf(trace[i]).state = JsUndefined) =>
      /\ NextEvent(trace, i).kind = "warn:update-undefined"
      /\ \E j \in Positions(trace, "commit") :
           j > i /\ trace[j].d = i /\ trace[j].state = JsUndefined
      /\ \E k \in DOMAIN arrays[rts[trace[i].rt].debugHistory] :
           arrays[rts[trace[i].rt].debugHistory][k] = Entry(trace[i])

\* The built-in handler of name n runs for the effects of runtime r.
BuiltinRuns(r, n) ==
  /\ rts[r].runEffectFn.fn = "default"
  /\ rts[r].effectHandlers[n] = "builtin"

\* The timers a delay effect of these applications can set.
DelayTimers == { Pending("delay", 1, M("Increment"), NoMsg) }

\* A dispatch on a handle whose reducer returned [s, e], e a delay effect.
DelayOnly(o, tr) ==
  /\ o.kind = "dispatch"
  /\ tr # <<>>
  /\ tr[1].kind = "update"
  /\ ResultOf(tr[1]).kind = "array"
  /\ Len(ResultOf(tr[1]).effects) = 1
  /\ ResultOf(tr[1]).effects[1].tag = "object"
  /\ ResultOf(tr[1]).effects[1].type = "delay"

\* What C22 says of one step.
DelayStep ==
  /\ (DelayOnly(op', trace') /\ BuiltinRuns(op'.rt, "delay")
        /\ MsgTruthy(ResultOf(trace'[1]).effects[1].msg)) =>
       /\ ~op'.threw
       /\ rts'[op'.rt].currentState = ResultOf(trace'[1]).state
       /\ Cardinality(Positions(trace', "update")) = 1
       /\ pending' = pending (+) SetToBag({Pending("delay", op'.rt,
                        ResultOf(trace'[1]).effects[1].msg, NoMsg)})
  /\ \A p \in DelayTimers :
       CopiesIn(p, pending') < CopiesIn(p, pending) =>
         /\ op'.kind = "timer" /\ op'.rt = p.rt /\ op'.msg = p.msg
         /\ CopiesIn(p, pending') = CopiesIn(p, pending) - 1
  /\ op'.kind = "timer" =>
       /\ CopiesIn(Pending("delay", op'.rt, op'.msg, NoMsg), pending) > 0
       /\ rts[op'.rt].updateFn.fn # "null" =>
            /\ trace'[1].kind = "update"
            /\ trace'[1].msg = op'.msg
            /\ trace'[1].state = rts[op'.rt].currentState
            /\ rts'[op'.rt].currentState = ResultOf(trace'[1]).state
  /\ \A i \in Positions(trace', "handler") :
       (/\ trace'[i].type = "delay"
        /\ rts[trace'[i].rt].effectHandlers["delay"] = "builtin"
        /\ ~MsgTruthy(trace'[i - 1].msg)) =>
         /\ NextEvent(trace', i).kind = "warn:delay-no-msg"
         /\ (op'.kind = "dispatch" /\ op'.msg = M("Multi")) => pending' = pending

\* C22: after a dispatch whose reducer returned [s, delay effect] the State
\* is s, the message of the effect has not been dispatched and one timer is
\* set; a timer leaves only by firing, once, and its dispatch runs the
\* reducer on the State current then; every timer set fires in the end.  A
\* delay effect without msg logs a warning and sets no timer.
C22_DelayDispatchesOnceLater ==
  /\ [][DelayStep]_vars
  /\ \A p \in DelayTimers :
       (CopiesIn(p, pending) > 0) ~>
         (op.kind = "timer" /\ op.rt = p.rt /\ op.msg = p.msg)

\* C22's case: the timer of a delay effect fired after another dispatch had
\* changed the State, and its message was reduced against that State.
C22_TimerFiredOnLaterStateSeen ==
  /\ op.kind = "timer"
  /\ trace # <<>>
  /\ trace[1].kind = "update"
  /\ trace[1].state = St(2)
  /\ rts[op.rt].currentState = St(3)

\* The built-in effects that dispatch their follow-up message themselves.
SynchronousNames == {"storage", "fn"}

\* The last position of tr at which the reducer was invoked (0: none).
LastUpdate(tr) ==
  IF Positions(tr, "update") = {} THEN 0
  ELSE CHOOSE x \in Positions(tr, "update") :
         \A y \in Positions(tr, "update") : y <= x

\* What C23 says of one step: the built-in handler called at position i with
\* a follow-up message has the reducer invoked with it next, in the same
\* call, and when that is the last reducer invocation of the call the State
\* is its result when the call returns.
SynchronousStep ==
  \A i \in Positions(trace', "handler") :
    (/\ op'.kind = "dispatch"
     /\ trace'[i].type \in SynchronousNames
     /\ BuiltinRuns(trace'[i].rt, trace'[i].type)
     /\ MsgTruthy(trace'[i - 1].msg)) =>
      /\ ~op'.threw
      /\ NextEvent(trace', i).kind = "update"
      /\ NextEvent(trace', i).rt = trace'[i].rt
      /\ NextEvent(trace', i).msg = trace'[i - 1].msg
      /\ NextEvent(trace', i).state = ResultOf(trace'[trace'[i].d]).state
      /\ LastUpdate(trace') = i + 1 =>
           rts'[trace'[i].rt].currentState = ResultOf(trace'[i + 1]).state

HttpRequests ==
  { Pending("http", 1, M("Increment"), M("Failed")),
    Pending("http", 1, M("Boom"), M("Failed")) }

\* What C24 says of one step: when a request of a mounted runtime settles,
\* dispatch is called once, with the onSuccess message if the response was
\* a 2xx one and with the onError message otherwise.
OneFollowUpStep ==
  (/\ op'.kind \in {"http-ok", "http-failed"}
   /\ rts[op'.rt].updateFn.fn # "null"
   /\ MsgTruthy(op'.msg)
   /\ MsgTruthy(op'.arg[2])) =>
    /\ Len(Invoked(trace', op'.rt)) = 1
    /\ Invoked(trace', op'.rt)[1].msg =
         IF Is2xx(op'.arg[1]) THEN op'.msg ELSE op'.arg[2]

\* C24 as stated: every http effect with onSuccess and onError has exactly
\* one follow-up message dispatched in the end, never both: onSuccess if and
\* only if the request resolved with a 2xx response, onError otherwise.
C24_ExactlyOneFollowUp ==
  /\ [][OneFollowUpStep]_vars
  /\ \A p \in HttpRequests :
       (CopiesIn(p, pending) > 0) ~>
         (op.kind \in {"http-ok", "http-failed"} /\ op.rt = p.rt
            /\ op.msg = p.msg)

\* The kind and the target of the event of this turn, and whether a handler
\* set listens on the element it reached.
EventOf(o) == [kind |-> o.arg[2], target |-> o.arg[3]]
Heard(o) == dom[o.arg[1]].listeners # <<>>

\* What C25 says of one step.  A data-msg attribute holds text when it is
\* present and not empty.
MalformedStep ==
  op'.kind = "event" =>
    /\ (/\ EventOf(op').kind \in {"click", "submit"}
        /\ EventOf(op').target.dataMsg \notin {"absent", ""}
        /\ ~JsonParses(EventOf(op').target.dataMsg)
        /\ Heard(op')) =>
         /\ Positions(trace', "error:data-msg") # {}
         /\ Positions(trace', "update") = {}
         /\ rts' = rts
         /\ ~op'.threw
    /\ (/\ EventOf(op').kind \in {"click", "submit"}
        /\ EventOf(op').target.dataMsg \in {"absent", ""}) =>
         /\ trace' = <<>>
         /\ rts' = rts
         /\ ~op'.threw
    /\ (/\ EventOf(op').kind \in {"input", "change"}
        /\ EventOf(op').target.model = "") =>
         /\ trace' = <<>>
         /\ rts' = rts
         /\ ~op'.threw

\* C25: a click or submit whose nearest data-msg holds text that is not
\* valid JSON logs an error, dispatches nothing, leaves the State unchanged
\* and does not throw; a click or submit with no data-msg, and an input or
\* change on a target without data-model, dispatches nothing and leaves the
\* State unchanged.
C25_MalformedOrMissingIgnored == [][MalformedStep]_vars

\* C25's case: a mounted application's element was reached by a submit from
\* a target whose data-msg text is cut short, and the error was logged.
C25_MalformedSubmitSeen ==
  /\ op.kind = "event"
  /\ EventOf(op).kind = "submit"
  /\ EventOf(op).target.dataMsg = "{\"type\":"
  /\ Positions(trace, "error:data-msg") # {}
  /\ rts[1].currentState = St(1)

\* C26 as stated: every FieldChanged message synthesized for an input or
\* change event has the data-model name as its field and, as its value, the
\* boolean checked state when the target is a checkbox and the target's
\* string value otherwise.
C26_CheckboxValueIsChecked ==
  (op.kind = "event" /\ EventOf(op).kind \in {"input", "change"}) =>
    \A i \in Positions(trace, "update") :
      /\ trace[i].msg.type = TStr("FieldChanged")
      /\ trace[i].msg.field = EventOf(op).target.model
      /\ trace[i].msg.value =
           IF EventOf(op).target.type = "checkbox"
           THEN BoolVal(EventOf(op).target.checked)
           ELSE StrVal(EventOf(op).target.value)

\* The values of C27, the pieces their conversion to a string would give,
\* and the fragments of a template one after the other.
Blanks ==
  {JV("null", 0), JV("undefined", 0), JV("boolean", FALSE),
   JV("boolean", TRUE)}
BlankTexts == {"null", "undefined", "false", "true"}
RECURSIVE Concat(_, _)
Concat(strings, i) ==
  IF i > Len(strings) THEN <<>> ELSE strings[i] \o Concat(strings, i + 1)

\* C27: an interpolated null, undefined, false or true contributes the empty
\* string: the output is the same as with the empty string in its place,
\* and a template in which only such values are interpolated gives its
\* fragments one after the other, with none of the texts null, undefined,
\* false and true.
C27_BlanksAddNothing ==
  (enc.called /\ ~enc.threw) =>
    /\ \A i \in DOMAIN enc.values :
         enc.values[i] \in Blanks =>
           enc.out = html(enc.strings,
                          [enc.values EXCEPT ![i] = JV("string", "")])
    /\ (\A i \in DOMAIN enc.values : enc.values[i] \in Blanks) =>
         /\ enc.out = Concat(enc.strings, 1)
         /\ \A k \in DOMAIN enc.out : enc.out[k] \notin BlankTexts

\* C27's case: html was called with true and undefined interpolated and
\* returned the three fragments.
C27_TrueAndUndefinedSeen ==
  /\ enc.called
  /\ enc.values = <<JV("boolean", TRUE), JV("undefined", 0)>>
  /\ enc.out = <<"f1", "f2", "f3">>

\* String(element) for the elements of an array from element i on, one
\* after the other, and the same with nothing for null and undefined.
RECURSIVE StringOfEach(_, _)
StringOfEach(elems, i) ==
  IF i > Len(elems) THEN <<>>
  ELSE JsString(elems[i]) \o StringOfEach(elems, i + 1)
RECURSIVE StringOfEachButNullish(_, _)
StringOfEachButNullish(elems, i) ==
  IF i > Len(elems) THEN <<>>
  ELSE (IF elems[i].t \in {"null", "undefined"} THEN <<>>
        ELSE JsString(elems[i]))
         \o StringOfEachButNullish(elems, i + 1)

\* html was called with one interpolation, of an array.
ArrayInterpolated ==
  enc.called /\ Len(enc.values) = 1 /\ enc.values[1].t = "array"

ObjectInterpolated ==
  enc.called /\ Len(enc.values) = 1 /\ enc.values[1].t = "object"
HasStringType(v) ==
  \E i \in DOMAIN v.x : v.x[i][1] = "type" /\ v.x[i][2].t = "string"
Quoted(out) ==
  /\ Len(out) >= 4
  /\ out[1] = "f1" /\ out[2] = "'"
  /\ out[Len(out) - 1] = "'" /\ out[Len(out)] = "f2"
Unquoted(out) == SubSeq(out, 3, Len(out) - 2)

\* The fields JSON keeps of the fields of an object: those with an undefined
\* or Symbol value are left out, and NaN becomes null.
RECURSIVE JsonKeeps(_, _)
JsonKeeps(fields, i) ==
  IF i > Len(fields) THEN <<>>
  ELSE (CASE fields[i][2].t \in {"undefined", "symbol"} -> <<>>
          [] fields[i][2].t = "nan" -> <<<<fields[i][1], JV("null", 0)>>>>
          [] OTHER -> <<fields[i]>>)
         \o JsonKeeps(fields, i + 1)

Undebugged(w) ==
  [w EXCEPT !.rts = [r \in DOMAIN w.rts |->
                       [w.rts[r] EXCEPT !.isDebugMode = FALSE,
                                        !.updateFn.debug = FALSE,
                                        !.runEffectFn.debug = FALSE]]]
Observed(w) ==
  [rts |-> Undebugged(w).rts, dom |-> w.dom, pending |-> w.pending,
   threw |-> w.exc,
   seen |-> SelectSeq(w.trace,
                      LAMBDA ev : ev.kind \in {"commit", "view", "handler",
                                               "called"})]

\* C30 as stated: whatever was dispatched and completed before, the next
\* dispatch, timer or response takes an application mounted in debug mode
\* through the same commits, view invocations and handler invocations, to
\* the same State, as it takes the same application without debug mode.
C30_DebugChangesNothing ==
  \A r \in runtimes :
    (op = NoOp /\ rts[r].updateFn.debug) =>
      /\ \A m \in DispatchMsgs :
           Observed(dispatch(World, r, m))
             = Observed(dispatch(Undebugged(World), r, m))
      /\ \A p \in BagToSet(pending) :
           IF p.kind = "delay"
           THEN Observed(dispatch(Taken(p), p.rt, p.msg))
                  = Observed(dispatch(Undebugged(Taken(p)), p.rt, p.msg))
           ELSE \A o \in HttpOutcomes :
                  Observed(httpSettled(Taken(p), p, o = "2xx"))
                    = Observed(httpSettled(Undebugged(Taken(p)), p, o = "2xx"))

C32_StaleMessageNeverDelivered ==
  [][(/\ op'.kind \in {"timer", "http-ok", "http-failed"}
      /\ stale' # stale) =>
       Positions(trace', "update") = {}]_vars

\* C33 as stated: when a cleanup callback throws during destroy(), the other
\* cleanup callbacks are invoked all the same and the instance is destroyed:
\* no listeners on its root, no content in it, State null, reducer gone.
C33_ThrowingCleanupStillDestroys ==
  [][(/\ op'.kind = "destroy"
      /\ handles[op'.h].throwing > 0
      /\ rts[op'.rt].rootElement # "null") =>
       /\ \A i \in DOMAIN handles[op'.h].calls :
            handles'[op'.h].calls[i] = handles[op'.h].calls[i] + 1
       /\ dom'[rts[op'.rt].rootElement] = [content |-> Empty, listeners |-> <<>>]
       /\ rts'[op'.rt].currentState = JsNull
       /\ rts'[op'.rt].updateFn = NoFn]_vars

\* C34 as stated: at every point of the life of a debug handle, also after
\* destroy(), its debug.history is the list timeTravel and clearHistory act
\* on: destroy() leaves it empty, timeTravel(i) succeeds exactly when it has
\* an entry at index i, clearHistory() leaves it empty.
C34_HistoryIsTheListActedOn ==
  [][\A h \in DOMAIN handles' :
       handles'[h].debug =>
         LET history == arrays[handles'[h].history]
             succeeds == \E i \in DOMAIN trace' : trace'[i].kind = "view"
         IN /\ handles'[h].history = rts'[handles'[h].rt].debugHistory
            /\ op'.h = h =>
                 /\ op'.kind \in {"destroy", "clearHistory"} =>
                      arrays'[handles'[h].history] = <<>>
                 /\ op'.kind = "timeTravel" =>
                      (succeeds <=> (0 <= op'.idx /\ op'.idx < Len(history)))]_vars

\* C35 as stated: whenever a mounted application has rendered content with
\* a data-msg button and was not destroyed, its root element carries the
\* delegated listeners of its runtime, and a click on the button reaches the
\* reducer; also after a second app() call on another root element.
C35_LiveRootCarriesListeners ==
  \A r \in runtimes :
    LET root == rts[r].rootElement
    IN (root # "null" /\ dom[root].content # Empty) =>
         /\ ListenersOf(dom, r)[root] # <<>>
         /\ (op.kind = "click" /\ op.arg[1] = root) => Invoked(trace, r) # <<>>

\* The handles app() has returned on runtime r.
HandlesOf(r) == {h \in DOMAIN handles : handles[h].rt = r}

\* C36 as stated: the handles returned on one runtime work on one shared
\* application, the one mounted last: when app() returns, getState() of
\* every handle of the runtime is the new initial State; a dispatch through
\* any of them runs the reducer mounted last on the shared State; destroy()
\* through any of them tears the mounted application down.
C36_HandlesShareOneApp ==
  [][LET r == op'.rt
     IN /\ (op'.kind = "app" /\ ~op'.threw) =>
             \A h \in HandlesOf(r) :
               rts'[handles'[h].rt].currentState = initialState(op'.arg[2])
        /\ (op'.kind = "dispatch" /\ Invoked(trace', r) # <<>>) =>
             /\ Invoked(trace', r)[1].state = rts[r].currentState
             /\ rts[r].updateFn.debug = handles[Last(HandlesOf(r))].debug
        /\ op'.kind = "destroy" =>
             /\ rts'[r].currentState = JsNull
             /\ rts'[r].updateFn = NoFn
             /\ rts[r].rootElement # "null" =>
                  dom'[rts[r].rootElement].content = Empty]_vars

\* C37: an app() call that throws, for a missing init, update or view or
\* for a selector that names no element, leaves the runtime's State,
\* reducer, view, mount root, listeners and history, the document, the
\* handles and the timers and requests in flight as they were, so that the
\* application mounted before keeps processing dispatches as before.
C37_FailedAppChangesNothing ==
  [][(op'.kind = "app" /\ op'.threw) =>
       /\ ConfigRejected(op'.arg[2]) \/ op'.arg[1] \notin Elements
       /\ rts' = rts
       /\ dom' = dom
       /\ arrays' = arrays
       /\ handles' = handles
       /\ pending' = pending
       /\ trace' = <<>>]_vars

\* C37's case: a debug application was mounted and has reduced a message,
\* and app() with a selector that names no element has thrown.
C37_FailedAppOnLiveSeen ==
  /\ op.kind = "app"
  /\ op.threw
  /\ op.arg[1] \notin Elements
  /\ rts[op.rt].updateFn = [fn |-> "update", debug |-> TRUE]
  /\ rts[op.rt].currentState = St(1)
  /\ Len(arrays[rts[op.rt].debugHistory]) = 1

\* C38: a reducer invocation that throws is followed by no commit, no
\* effect and no handler call of its own; when it is the invocation of a
\* dispatch() call, the call throws, the State, the document, the history
\* and the timers and requests in flight are as before it, and no view is
\* rendered.
C38_ThrowingReducerChangesNothing ==
  [][\A i \in Positions(trace', "update") :
       ResultOf(trace'[i]).kind = "throw" =>
         /\ \A j \in DOMAIN trace' : trace'[j].d = i => j = i
         /\ (op'.kind = "dispatch" /\ i = 1) =>
              /\ op'.threw
              /\ Len(trace') = 1
              /\ rts' = rts
              /\ dom' = dom
              /\ arrays' = arrays
              /\ pending' = pending]_vars

\* C38's case: a debug application holds count 1 and one history entry, and
\* dispatch({type: "Boom"}) has thrown out of the reducer.
C38_ReducerThrewInDebugSeen ==
  /\ op.kind = "dispatch"
  /\ op.msg = M("Boom")
  /\ op.threw
  /\ trace # <<>>
  /\ trace[1].kind = "update"
  /\ rts[op.rt].updateFn = [fn |-> "update", debug |-> TRUE]
  /\ rts[op.rt].currentState = St(1)
  /\ Len(arrays[rts[op.rt].debugHistory]) = 1

\* The kinds of event runDomAction leaves in a trace.
DomActionKinds ==
  {"dom-action", "warn:dom-element-not-found", "warn:dom-unknown-action"}

\* What C39 says of one step.
DomStep ==
  /\ op'.kind # "dom" =>
       /\ \A i \in DOMAIN trace' : trace'[i].kind \notin DomActionKinds
       /\ \A i \in Positions(trace', "handler") :
            (trace'[i].type = "dom" /\ BuiltinRuns(op'.rt, "dom")) =>
              LET eff == ResultOf(trace'[1]).effects[1]
                  root == rts[op'.rt].rootElement
              IN /\ pending' = pending (+) SetToBag({
                      [kind |-> "dom", rt |-> op'.rt, msg |-> NoMsg,
                       onError |-> NoMsg, action |-> eff.action,
                       selector |-> eff.selector, delay |-> eff.delay]})
                 /\ rts'[op'.rt].currentState = ResultOf(trace'[1]).state
                 /\ trace'[Len(trace')].kind = "view"
                 /\ dom'[root].content =
                      view(rts[op'.rt].viewFn, ResultOf(trace'[1]).state)
  /\ op'.kind = "dom" =>
       LET p == op'.arg[1]
       IN /\ CopiesIn(p, pending) > 0
          /\ pending' = pending (-) SetToBag({p})
          /\ rts' = rts
          /\ arrays' = arrays
          /\ Len(trace') = 1
          /\ IF p.selector \notin Elements
             THEN trace'[1].kind = "warn:dom-element-not-found" /\ dom' = dom
             ELSE IF p.action # "setProperty"
             THEN trace'[1].kind = "warn:dom-unknown-action" /\ dom' = dom
             ELSE /\ trace'[1].kind = "dom-action"
                  /\ dom' = [dom EXCEPT ![p.selector].content = Empty]

\* C39: the action of a dom effect does not run in the dispatch call that
\* returned the effect: that call commits the State, leaves one frame or
\* timer in flight and ends with the render of the committed State; the
\* action runs in a later turn, once; when the selector finds no element or
\* the action name is unknown that turn logs one warning and changes
\* nothing.
C39_DomActionRunsLater == [][DomStep]_vars

\* C39's case: dispatch({type: "Clear"}) committed count 1 and rendered it,
\* and the frame of its dom effect has since run and emptied the root.
C39_ActionRanAfterRenderSeen ==
  /\ op.kind = "dom"
  /\ op.arg[1].action = "setProperty"
  /\ op.arg[1].delay = 0
  /\ rts[op.rt].rootElement = "#app"
  /\ rts[op.rt].currentState = St(1)
  /\ dom["#app"].content = Empty
  /\ trace = <<Ev("dom-action", op.rt, 0, JsNull, NoMsg, "#app")>>

\* The events of kind k in tr that belong to the reducer invocation at
\* position i.
EventsOf(tr, i, k) == SelectSeq(tr, LAMBDA ev : ev.kind = k /\ ev.d = i)

\* C40: when a reducer invocation returns an array, the first element is
\* committed as the State, once, whatever the elements are; unless the call
\* throws, every further element that is an object is handed to the effect
\* runner, in order, those after a null or undefined element included; the
\* null and undefined elements are handed to nothing and no warning is
\* logged for them.
C40_ArrayIsStateThenEffects ==
  [][\A i \in Positions(trace', "update") :
       ResultOf(trace'[i]).kind = "array" =>
         LET result == ResultOf(trace'[i])
             given == SelectSeq(result.effects, LAMBDA e : e.tag = "object")
             run == EventsOf(trace', i, "effect")
         IN /\ Len(EventsOf(trace', i, "commit")) = 1
            /\ EventsOf(trace', i, "commit")[1].state = result.state
            /\ StateBefore(trace', Len(trace') + 1, trace'[i].rt,
                           rts[trace'[i].rt].currentState) =
                 rts'[trace'[i].rt].currentState
            /\ Len(run) <= Len(given)
            /\ \A k \in DOMAIN run :
                 run[k].type = given[k].type /\ run[k].msg = given[k].msg
            /\ ~op'.threw => Len(run) = Len(given)
            /\ \A j \in DOMAIN trace' :
                 (trace'[j].d = i /\
                    trace'[j].kind \in {"warn:unknown-effect", "warn:delay-no-msg"})
                   => trace'[j].type # ""]_vars

\* C40's case: dispatch({type: "Multi"}) returned an array with null and
\* undefined among its elements: the five objects after the null reached
\* the effect runner and the custom handler after the undefined was called.
C40_EffectsAfterNullSeen ==
  /\ op.kind = "dispatch"
  /\ op.msg = M("Multi")
  /\ ~op.threw
  /\ Len(EventsOf(trace, 1, "effect")) = 5
  /\ Len(EventsOf(trace, 1, "called")) = 1
  /\ EventsOf(trace, 1, "called")[1].type = "custom"
====
